---- MODULE Spec2Model ----
(***************************************************************************)
(* Session state of the interview playground front end: the Playground     *)
(* component (connection effect, data-channel handler, code editor         *)
(* handler, test-results overlay), the TestResults component and the       *)
(* InterviewTimer component; and the question-lookup API route and the     *)
(* question page of the same application.                                  *)
(***************************************************************************)
EXTENDS Integers, Sequences, FiniteSets, TLC

VARIABLES
    roomState,            \* useConnectionState()                    Playground.tsx:68
    effectPending,        \* the connection effect is scheduled      Playground.tsx:71-81
    transcripts,          \* useState<ChatMessageType[]>([])         Playground.tsx:56
    transcriptsClosure,   \* `transcripts` captured by onDataReceived Playground.tsx:99-143
    userCode,             \* useState<string>("")                    Playground.tsx:57
    questionDescription,  \* useState<string>("")                    Playground.tsx:58
    testResults,          \* useState<any>(null)                     Playground.tsx:60
    selectedIndex,        \* useState(0) of TestResults              TestResults.tsx:40
    timeLeft,             \* useState<string>("00:00:00")            InterviewTimer.tsx:9
    raised,               \* the last handler call threw to its caller
    emitted,              \* what the last handler call published
    lastTestRun,          \* history: decoded.data of the last test-results message
    lastEdit,             \* history: the local edit the buffer holds and whether it was published
    lookup,               \* the call of the question-lookup handler  api/questions/[id].ts:16-51
    page                  \* router, state and fetches of QuestionPage  part_002:10-45

vars == << roomState, effectPending, transcripts, transcriptsClosure, userCode,
           questionDescription, testResults, selectedIndex, timeLeft, raised, emitted,
           lastTestRun, lastEdit, lookup, page >>

\* The variables of the playground session.
sessionVars == << roomState, effectPending, transcripts, transcriptsClosure, userCode,
                  questionDescription, testResults, selectedIndex, timeLeft, raised,
                  emitted, lastTestRun, lastEdit >>

stores == << transcripts, questionDescription, userCode, testResults, timeLeft >>

-----------------------------------------------------------------------------
(* Bounds *)

MaxTranscripts == 2

\* The timer texts run from 00:00:00 to MaxHours:MaxMinutes:59 and the timer
\* numbers from 0 to MaxSeconds.
MaxHours == 1

MaxMinutes == 6

MaxSeconds == 130

\* The question ids are "1" .. MaxQuestionId.
MaxQuestionId == 6

\* The calls of loadQuestion that wait for the network at the same time.
MaxFetches == 2

-----------------------------------------------------------------------------
(* Optional values: null / undefined is the empty sequence, a present value  *)
(* v is <<v>>.                                                               *)

None == << >>

Some(v) == << v >>

IsSome(o) == o /= << >>

Get(o) == o[1]

-----------------------------------------------------------------------------
(* Connection state *)

Disconnected == "disconnected"

Connecting == "connecting"

Connected == "connected"

Reconnecting == "reconnecting"

ConnectionStates == { Disconnected, Connecting, Connected, Reconnecting }

\* The transitions the transport reports through useConnectionState().
NextConnectionStates(s) ==
    CASE s = Disconnected -> { Connecting }
      [] s = Connecting   -> { Connected, Disconnected }
      [] s = Connected    -> { Disconnected, Reconnecting }
      [] s = Reconnecting -> { Connected, Disconnected }

\* useLocalParticipant() hands out the room's local participant object.
localParticipant == TRUE

Placeholder == "# Waiting for question..."

\* A timeLeft value: the "HH:MM:SS" string or the number of seconds.
TimeString(str) == [ kind |-> "string", str |-> str, num |-> 0 ]

TimeNumber(n) == [ kind |-> "number", str |-> "", num |-> n ]

InitialTimeLeft == Some(TimeString("00:00:00"))

-----------------------------------------------------------------------------
(* JSON payloads.  A decoded object is a record over the keys the handlers   *)
(* read; a key the object does not carry is None.                            *)

\* The value of Date.now() / new Date().getTime(): a reading of the clock.
ClockStamp == [ source |-> "clock", millis |-> 0 ]

PayloadStamp(n) == [ source |-> "payload", millis |-> n ]

\* JavaScript truthiness of an optional boolean and of an optional string.
TruthyBool(o) == IsSome(o) /\ Get(o) = TRUE

TruthyString(o) == IsSome(o) /\ Get(o) /= ""

\* interface TestCase
CasePass ==
    [ test_id |-> "t1", inputs |-> << "[2,7]", "9" >>, expected |-> "[0,1]",
      actual |-> "[0,1]", success |-> TRUE, error |-> None ]

CaseFail ==
    [ test_id |-> "t2", inputs |-> << "[3,3]", "6" >>, expected |-> "[0,1]",
      actual |-> "[]", success |-> FALSE, error |-> None ]

RECURSIVE CountPassed(_)
CountPassed(cases) ==
    IF cases = << >> THEN 0
    ELSE (IF Head(cases).success THEN 1 ELSE 0) + CountPassed(Tail(cases))

\* interface TestSummary, as the grader fills it in for a list of cases.
SummaryOf(cases) ==
    [ total  |-> Len(cases),
      passed |-> CountPassed(cases),
      failed |-> Len(cases) - CountPassed(cases) ]

\* interface TestResults: { test_results, summary }
ResultsOf(cases) == [ test_results |-> Some(cases), summary |-> SummaryOf(cases) ]

ResultsWithoutCases == [ test_results |-> None, summary |-> SummaryOf(<< >>) ]

CaseLists == { << >>, << CasePass >>, << CasePass, CaseFail >> }

\* The `results` key of a test-results payload: absent, or present with the
\* case list absent, empty or filled.
ResultsValues ==
    { None, Some(ResultsWithoutCases) } \cup { Some(ResultsOf(cs)) : cs \in CaseLists }

\* decoded.data of an inbound message.
NoData ==
    [ description |-> None, skeleton_code |-> None, success |-> None, mode |-> None,
      cooldown |-> None, error |-> None, results |-> None ]

QuestionData(d, c) == [ NoData EXCEPT !.description = d, !.skeleton_code = c ]

TestRunData(s, m, cd, e, r) ==
    [ NoData EXCEPT !.success = s, !.mode = m, !.cooldown = cd, !.error = e,
                    !.results = r ]

\* Every combination of the fields of a test-results payload.
TestRuns ==
    { TestRunData(Some(s), Some(m), cd, e, r) :
        s \in BOOLEAN, m \in { "run", "submit" },
        cd \in { None, Some(FALSE), Some(TRUE) },
        e \in { None, Some(""), Some("boom") }, r \in ResultsValues }

-----------------------------------------------------------------------------
(* TestResults component: what it renders for the stored results and its     *)
(* selectedIndex state.                                                      *)

ViewOf(kind, text, header, tabs, selected, badge) ==
    [ kind |-> kind, text |-> text, header |-> header, tabs |-> tabs,
      selected |-> selected, badge |-> badge ]

\* Nothing is mounted while testResults is null (`testResults && ...`).
IdleView == ViewOf("idle", "", "", << >>, 0, "")

\* `Please wait before running code again in ${results.mode} mode.`
WaitMessage(mode) ==
    "Please wait before running code again in "
        \o (IF IsSome(mode) THEN Get(mode) ELSE "undefined") \o " mode."

\* !results.results || !results.results.test_results || length === 0
NoCases(results) ==
    \/ ~IsSome(results.results)
    \/ ~IsSome(Get(results.results).test_results)
    \/ Len(Get(Get(results.results).test_results)) = 0

\* Mutant of IsSubmitState: the comparison misspells the mode.
IsSubmitStateMisspelt(results) == results.state = Some("Submit")

\* const isSubmitState = results.state === 'submit'
IsSubmitState(results) == results.state = Some("submit")

TestResultsView(results, selected) ==
    IF ~TruthyBool(results.success) /\ TruthyBool(results.cooldown)
    THEN ViewOf("cooldown",
                IF TruthyString(results.error) THEN Get(results.error)
                ELSE WaitMessage(results.mode),
                "Execution Cooldown", << >>, 0, "")
    ELSE IF ~TruthyBool(results.success) /\ TruthyString(results.error)
    THEN ViewOf("error", Get(results.error), "Error:", << >>, 0, "")
    ELSE IF NoCases(results)
    THEN ViewOf("unavailable", "No test results available.", "", << >>, 0, "")
    ELSE LET test_results == Get(Get(results.results).test_results)
             summary      == Get(results.results).summary
         IN  IF IsSubmitState(results)
             THEN ViewOf("submit-summary",
                         IF summary.failed > 0
                         THEN "Your submission did not pass all tests."
                         ELSE "Your submission passed all tests!",
                         IF summary.passed = summary.total
                         THEN "All Tests Passed!"
                         ELSE ToString(summary.passed) \o "/"
                                  \o ToString(summary.total) \o " Tests Passed",
                         << >>, 0, "")
             ELSE ViewOf("run-detail", "", "", test_results, selected,
                         ToString(summary.passed) \o "/"
                             \o ToString(summary.total) \o " Passed")

\* The badges of the overlay header: Success or Failed when
\* testResults.success !== undefined && !testResults.cooldown, Cooldown when
\* testResults.cooldown.
HeaderBadges(results) ==
    (IF IsSome(results.success) /\ ~TruthyBool(results.cooldown)
     THEN { IF TruthyBool(results.success) THEN "Success" ELSE "Failed" }
     ELSE { })
        \cup (IF TruthyBool(results.cooldown) THEN { "Cooldown" } ELSE { })

\* What the overlay shows in the current state.
View ==
    IF IsSome(testResults) THEN TestResultsView(Get(testResults), selectedIndex)
    ELSE IdleView

\* Mutant of ResultData: the spread of decoded.data is left out.
ResultDataWithoutSpread(data) ==
    [ description |-> None, skeleton_code |-> None, success |-> None, mode |-> None,
      cooldown |-> None, error |-> None, results |-> None, state |-> data.mode ]

\* Mutant of ResultData: the new data is merged over the displayed results,
\* { ...testResults, ...decoded.data }, so a key the new data lacks keeps its
\* old value.
ResultDataMergedOverOld(data) ==
    LET Keep(new, old) == IF IsSome(new) \/ ~IsSome(testResults) THEN new ELSE old
        prev == IF IsSome(testResults) THEN Get(testResults) ELSE data
    IN  [ description |-> Keep(data.description, prev.description),
          skeleton_code |-> Keep(data.skeleton_code, prev.skeleton_code),
          success |-> Keep(data.success, prev.success),
          mode |-> Keep(data.mode, prev.mode),
          cooldown |-> Keep(data.cooldown, prev.cooldown),
          error |-> Keep(data.error, prev.error),
          results |-> Keep(data.results, prev.results),
          state |-> data.mode ]

\* const resultData = { ...decoded.data, state: decoded.data.mode }
ResultData(data) ==
    [ description |-> data.description, skeleton_code |-> data.skeleton_code,
      success |-> data.success, mode |-> data.mode, cooldown |-> data.cooldown,
      error |-> data.error, results |-> data.results, state |-> data.mode ]

-----------------------------------------------------------------------------
(* InterviewTimer: what the component renders from timeLeft.  The file holds *)
(* the component in a string variant (formatTimeDisplay, getTimeStyles) and  *)
(* in a numeric variant (formatTime).                                        *)

\* timeString.split(':')
RECURSIVE Split(_)
Split(str) ==
    IF str = "" THEN << "" >>
    ELSE LET rest == Split(Tail(str))
         IN  IF Head(str) = ":" THEN << "" >> \o rest
             ELSE << Head(str) \o Head(rest) >> \o Tail(rest)

\* const [hours, minutes, seconds] = ...: a missing element is undefined.
Element(parts, i) == IF i <= Len(parts) THEN Some(parts[i]) ELSE None

\* `${x}` of a string or of undefined.
Interpolated(o) == IF IsSome(o) THEN Get(o) ELSE "undefined"

\* The value of a decimal digit.
DigitValue(ch) ==
    CASE ch = "0" -> 0 [] ch = "1" -> 1 [] ch = "2" -> 2 [] ch = "3" -> 3
      [] ch = "4" -> 4 [] ch = "5" -> 5 [] ch = "6" -> 6 [] ch = "7" -> 7
      [] ch = "8" -> 8 [] ch = "9" -> 9

\* Number(str) of a string of decimal digits; Number("") is 0.
RECURSIVE NumberOf(_)
NumberOf(str) ==
    IF str = "" THEN 0
    ELSE NumberOf(SubSeq(str, 1, Len(str) - 1)) * 10
             + DigitValue(SubSeq(str, Len(str), Len(str)))

\* Mutant of FormatTimeDisplay: the hours are compared with '0'.
FormatTimeDisplayHoursSingleDigit(timeString) ==
    LET parts == Split(timeString)
    IN  IF Element(parts, 1) = Some("0")
        THEN Interpolated(Element(parts, 2)) \o ":" \o Interpolated(Element(parts, 3))
        ELSE timeString

\* formatTimeDisplay(timeString), string variant
FormatTimeDisplay(timeString) ==
    LET parts == Split(timeString)
    IN  IF Element(parts, 1) = Some("00")
        THEN Interpolated(Element(parts, 2)) \o ":" \o Interpolated(Element(parts, 3))
        ELSE timeString

\* Mutant of GetTimeStyles: the thresholds are exclusive.
GetTimeStylesExclusive(timeString) ==
    LET parts == Split(timeString)
    IN  IF Len(parts) < 3 THEN ""
        ELSE LET hours   == NumberOf(parts[1])
                 minutes == NumberOf(parts[2])
                 seconds == NumberOf(parts[3])
                 totalMinutesTimes60 == (hours * 60 + minutes) * 60 + seconds
             IN  IF totalMinutesTimes60 < 3 * 60 THEN "text-red-500 animate-pulse"
                 ELSE IF totalMinutesTimes60 < 5 * 60 THEN "text-red-500"
                 ELSE ""

\* getTimeStyles(timeString), string variant.  totalMinutes = hours * 60 +
\* minutes + seconds / 60 is compared with 3 and 5; both sides are multiplied
\* by 60 here to stay in the integers.  With fewer than three parts an
\* operand is undefined, the sum is NaN and both comparisons are false.
GetTimeStyles(timeString) ==
    LET parts == Split(timeString)
    IN  IF Len(parts) < 3 THEN ""
        ELSE LET hours   == NumberOf(parts[1])
                 minutes == NumberOf(parts[2])
                 seconds == NumberOf(parts[3])
                 totalMinutesTimes60 == (hours * 60 + minutes) * 60 + seconds
             IN  IF totalMinutesTimes60 <= 3 * 60 THEN "text-red-500 animate-pulse"
                 ELSE IF totalMinutesTimes60 <= 5 * 60 THEN "text-red-500"
                 ELSE ""

\* str.padStart(targetLength, padString) with a padString of one character.
RECURSIVE PadStart(_, _, _)
PadStart(str, targetLength, padString) ==
    IF Len(str) >= targetLength THEN str
    ELSE PadStart(padString \o str, targetLength, padString)

\* formatTime(seconds), numeric variant, of a non-negative integer.
FormatTime(seconds) ==
    LET minutes          == seconds \div 60
        remainingSeconds == seconds % 60
    IN  ToString(minutes) \o ":" \o PadStart(ToString(remainingSeconds), 2, "0")

\* What the string variant renders: getTimeStyles and formatTimeDisplay call
\* timeString.split, a TypeError when timeLeft is a number or undefined.
TimerView ==
    IF IsSome(timeLeft) /\ Get(timeLeft).kind = "string"
    THEN [ threw |-> FALSE,
           style |-> GetTimeStyles(Get(timeLeft).str),
           text  |-> FormatTimeDisplay(Get(timeLeft).str) ]
    ELSE [ threw |-> TRUE, style |-> "", text |-> "" ]

\* What the numeric variant renders: seconds / 60 and seconds % 60 are NaN
\* when timeLeft is an "HH:MM:SS" string or undefined.
NumericTimerView ==
    IF IsSome(timeLeft) /\ Get(timeLeft).kind = "number"
    THEN [ threw |-> FALSE, style |-> "", text |-> FormatTime(Get(timeLeft).num) ]
    ELSE [ threw |-> FALSE, style |-> "", text |-> "NaN:NaN" ]

-----------------------------------------------------------------------------
(* Inbound messages: a topic and a payload of bytes.  The payload is bytes   *)
(* that are not JSON, the JSON value null, or a JSON object.                 *)

Topics == { "transcription", "question-data", "test-results", "interview-time", "other" }

Malformed ==
    [ kind |-> "malformed", type |-> None, text |-> None, timestamp |-> None,
      data |-> None, timeLeft |-> None ]

JsonNull == [ Malformed EXCEPT !.kind = "null" ]

EmptyObject == [ Malformed EXCEPT !.kind = "object" ]

TranscriptionPayloads ==
    { [ EmptyObject EXCEPT !.text = Some("hi"), !.timestamp = Some(7) ],
      [ EmptyObject EXCEPT !.text = Some("yo") ] }

QuestionPayloads ==
    { [ EmptyObject EXCEPT !.type = Some("question_data"), !.data = d ] :
        d \in { None,
                Some(QuestionData(None, None)),
                Some(QuestionData(Some("Two Sum"), Some("def f(): pass"))) } }

\* The test runs of the session scenario and a one-case run.
RunTwoCases ==
    TestRunData(Some(TRUE), Some("run"), None, None,
                Some(ResultsOf(<< CasePass, CaseFail >>)))

RunOneCase ==
    TestRunData(Some(TRUE), Some("run"), None, None, Some(ResultsOf(<< CasePass >>)))

SubmitFailed == TestRunData(Some(FALSE), Some("submit"), None, None, None)

TestResultsPayload(d) ==
    [ EmptyObject EXCEPT !.type = Some("test_results"), !.data = d ]

TestResultsPayloads ==
    { TestResultsPayload(d) :
        d \in { None, Some(RunTwoCases), Some(RunOneCase), Some(SubmitFailed) } }

TimerPayloads ==
    { [ EmptyObject EXCEPT !.timeLeft = t ] :
        t \in { Some(TimeString("00:04:30")), Some(TimeNumber(45)) } }

OtherPayloads == { [ EmptyObject EXCEPT !.type = Some("other") ] }

Payloads ==
    { Malformed, JsonNull } \cup TranscriptionPayloads \cup QuestionPayloads
        \cup TestResultsPayloads \cup TimerPayloads \cup OtherPayloads

Message(topic, payload) == [ topic |-> topic, payload |-> payload ]

InboundMessages == { Message(t, p) : t \in Topics, p \in Payloads }

\* The messages of the execution feedback alone, over every field combination.
FeedbackMessages ==
    { Message("test-results", TestResultsPayload(Some(d))) : d \in TestRuns }

\* The sender's "HH:MM:SS" text of h hours, m minutes and s seconds.
TwoDigits(n) == IF n < 10 THEN "0" \o ToString(n) ELSE ToString(n)

TimeText(h, m, s) == TwoDigits(h) \o ":" \o TwoDigits(m) \o ":" \o TwoDigits(s)

\* The timer messages: every "HH:MM:SS" text and every number of seconds
\* within the bounds.
TimeValues ==
    { TimeString(TimeText(h, m, s)) : h \in 0 .. MaxHours, m \in 0 .. MaxMinutes,
                                      s \in 0 .. 59 }
        \cup { TimeNumber(n) : n \in 0 .. MaxSeconds }

TimerMessages ==
    { Message("interview-time", [ EmptyObject EXCEPT !.timeLeft = Some(t) ]) :
        t \in TimeValues }

\* The texts typed into the editor.
EditTexts == { "x = 1", "x = 2" }

-----------------------------------------------------------------------------
(* Playground.onDataReceived                                                 *)

\* The branch of the if / else-if chain a decoded object takes.
Branch(msg) ==
    IF msg.topic = "transcription" THEN "transcription"
    ELSE IF msg.payload.type = Some("question_data") /\ msg.topic = "question-data"
    THEN "question_data"
    ELSE IF msg.payload.type = Some("test_results") /\ msg.topic = "test-results"
    THEN "test_results"
    ELSE "none"

\* The handler has no try/catch: JSON.parse throws a SyntaxError on bytes that
\* are not JSON; `"timestamp" in decoded` and `decoded.type` throw a TypeError
\* on null; the destructuring of decoded.data and decoded.data.mode throw a
\* TypeError when the object carries no data.
OnDataReceivedThrows(msg) ==
    \/ msg.payload.kind = "malformed"
    \/ msg.payload.kind = "null"
    \/ Branch(msg) \in { "question_data", "test_results" } /\ ~IsSome(msg.payload.data)

\* The entry the transcription branch appends.
TranscriptEntry(decoded) ==
    [ name      |-> "You",
      message   |-> decoded.text,
      timestamp |-> IF IsSome(decoded.timestamp) /\ Get(decoded.timestamp) > 0
                    THEN PayloadStamp(Get(decoded.timestamp))
                    ELSE ClockStamp,
      isSelf    |-> TRUE ]

\* description || ""  and  `${skeleton_code || ''}`
OrEmpty(o) == IF TruthyString(o) THEN Get(o) ELSE ""

\* Mutant of FormattedCode: the skeleton is merged after the text in the buffer.
FormattedCodeMerged(data) == userCode \o OrEmpty(data.skeleton_code)

\* const formattedCode = `${skeleton_code || ''}`
FormattedCode(data) == OrEmpty(data.skeleton_code)

OnDataReceived(msg) ==
    IF OnDataReceivedThrows(msg)
    THEN /\ raised' = TRUE
         /\ UNCHANGED << transcripts, questionDescription, userCode, testResults >>
    ELSE /\ raised' = FALSE
         /\ CASE Branch(msg) = "transcription" ->
                   /\ transcripts' = Append(transcriptsClosure, TranscriptEntry(msg.payload))
                   /\ UNCHANGED << questionDescription, userCode, testResults >>
              [] Branch(msg) = "question_data" ->
                   /\ questionDescription' = OrEmpty(Get(msg.payload.data).description)
                   /\ userCode' = FormattedCode(Get(msg.payload.data))
                   /\ UNCHANGED << transcripts, testResults >>
              [] Branch(msg) = "test_results" ->
                   /\ testResults' = Some(ResultData(Get(msg.payload.data)))
                   /\ UNCHANGED << transcripts, questionDescription, userCode >>
              [] OTHER ->
                   UNCHANGED << transcripts, questionDescription, userCode, testResults >>

\* Mutant of HandleTimeUpdate: the test of the topic is missing.
HandleTimeUpdateOnAnyTopic(msg) ==
    IF msg.payload.kind = "object"
    THEN timeLeft' = msg.payload.timeLeft
    ELSE UNCHANGED timeLeft

(* InterviewTimer.handleTimeUpdate: the parse and the read of data.timeLeft   *)
(* are inside try/catch; an object without timeLeft stores undefined.        *)
HandleTimeUpdate(msg) ==
    IF msg.topic = "interview-time" /\ msg.payload.kind = "object"
    THEN timeLeft' = msg.payload.timeLeft
    ELSE UNCHANGED timeLeft

\* A well-formed test-results message: the one the test_results branch stores.
IsTestRunMessage(msg) ==
    msg.payload.kind = "object" /\ Branch(msg) = "test_results" /\ IsSome(msg.payload.data)

-----------------------------------------------------------------------------
(* The question-lookup API route, pages/api/questions/[id].ts: one call of   *)
(* handler(req, res) from the request to the response.  The backend is the   *)
(* environment: its fetch resolves with a status or rejects, and the read of *)
(* the body resolves or rejects.                                             *)

Methods == { "GET", "HEAD", "POST", "PUT", "PATCH", "DELETE" }

QuestionIds == { ToString(i) : i \in 1 .. MaxQuestionId }

\* The statuses the backend answers with.
BackendStatuses == { 200, 201, 404, 500, 503 }

\* response.ok
ResponseOk(status) == status \in 200 .. 299

\* response.statusText
StatusText(status) ==
    CASE status = 200 -> "OK"
      [] status = 201 -> "Created"
      [] status = 404 -> "Not Found"
      [] status = 500 -> "Internal Server Error"
      [] status = 503 -> "Service Unavailable"

\* The question object the backend holds for an id (type QuestionData).
BackendQuestion(id) ==
    [ id |-> id, title |-> "Question " \o id, description |-> "Describe " \o id,
      difficulty |-> "easy", category |-> "arrays" ]

\* res.status(status).json(body): the body is an ErrorResponse or a question.
ErrorResponse(status, error) ==
    [ status |-> status, error |-> Some(error), question |-> None ]

QuestionResponse(status, questionData) ==
    [ status |-> status, error |-> None, question |-> Some(questionData) ]

MethodNotAllowed == ErrorResponse(405, "Method not allowed")

InternalServerError ==
    ErrorResponse(500, "Internal server error while fetching question data")

\* Mutant of BackendError: every backend failure is answered with 500.
BackendErrorAlways500(status) ==
    ErrorResponse(500, "Failed to fetch question data: " \o StatusText(status))

\* res.status(response.status).json({ error: `Failed to fetch question data:
\* ${response.statusText}` })
BackendError(status) ==
    ErrorResponse(status, "Failed to fetch question data: " \o StatusText(status))

\* One call: where it is, its request, whether fetch was called, the status
\* of the backend's response, which await rejected, the response sent, and
\* whether an exception left the handler (every await is inside the try).
LookupOf(phase, method, id, contacted, backend, rejected, res, escaped) ==
    [ phase |-> phase, method |-> method, id |-> id, contacted |-> contacted,
      backend |-> backend, rejected |-> rejected, res |-> res, escaped |-> escaped ]

LookupIdle == LookupOf("idle", "", "", FALSE, None, "none", None, FALSE)

\* handler(req, res) is called: a method other than GET is answered at once,
\* a GET calls fetch and waits for it.
HandlerCalled(method, id) ==
    /\ lookup.phase \in { "idle", "responded" }
    /\ lookup' = IF method /= "GET"
                 THEN LookupOf("responded", method, id, FALSE, None, "none",
                               Some(MethodNotAllowed), FALSE)
                 ELSE LookupOf("fetching", method, id, TRUE, None, "none", None, FALSE)
    /\ UNCHANGED << sessionVars, page >>

\* await fetch(...) settles: a rejection goes to the catch block, a response
\* to the read of its body (response.text() or response.json()).
FetchSettled(outcome) ==
    /\ lookup.phase = "fetching"
    /\ lookup' = IF IsSome(outcome)
                 THEN [ lookup EXCEPT !.phase = "reading", !.backend = outcome ]
                 ELSE [ lookup EXCEPT !.phase = "responded", !.rejected = "fetch",
                                      !.res = Some(InternalServerError) ]
    /\ UNCHANGED << sessionVars, page >>

\* The read of the body settles: a rejection goes to the catch block; the
\* text of a failure is logged and its status passed on; the JSON of a
\* success is sent with 200.
BodySettled(readable) ==
    /\ lookup.phase = "reading"
    /\ lookup' =
           IF ~readable
           THEN [ lookup EXCEPT !.phase = "responded", !.rejected = "body",
                                !.res = Some(InternalServerError) ]
           ELSE IF ResponseOk(Get(lookup.backend))
           THEN [ lookup EXCEPT !.phase = "responded",
                                !.res = Some(QuestionResponse(200, BackendQuestion(lookup.id))) ]
           ELSE [ lookup EXCEPT !.phase = "responded",
                                !.res = Some(BackendError(Get(lookup.backend))) ]
    /\ UNCHANGED << sessionVars, page >>

-----------------------------------------------------------------------------
(* QuestionPage: the router's isReady and query id, the loading and error    *)
(* state, the scheduled effect, and the calls of loadQuestion that wait for  *)
(* fetch or for response.json().  Nothing cancels a call when the id changes. *)

\* A thrown value: an Error with its message, or something else.
Thrown(isError, message) == [ isError |-> isError, message |-> message ]

\* throw new Error('Failed to load question data')
LoadFailed == Thrown(TRUE, "Failed to load question data")

\* What fetch rejects with and what response.json() rejects with.
FetchRejections == { Thrown(TRUE, "Failed to fetch"), Thrown(FALSE, "") }

JsonRejections == { Thrown(TRUE, "Unexpected end of JSON input") }

\* err instanceof Error ? err.message : 'Unknown error'
ErrorMessage(err) == IF err.isError THEN err.message ELSE "Unknown error"

PageOf(isReady, id, loading, error, scheduled, fetches) ==
    [ isReady |-> isReady, id |-> id, loading |-> loading, error |-> error,
      effectPending |-> scheduled, fetches |-> fetches ]

\* useState(true), useState<string | null>(null); the effect of the first
\* render is scheduled.
PageInitial == PageOf(FALSE, None, TRUE, None, TRUE, << >>)

\* The sequence without its i-th element.
Without(seq, i) == SubSeq(seq, 1, i - 1) \o SubSeq(seq, i + 1, Len(seq))

\* Mutant of Caught: the catch block leaves loading as it is.
CaughtStillLoading(p, i, err) ==
    [ p EXCEPT !.error = Some(ErrorMessage(err)), !.fetches = Without(p.fetches, i) ]

\* The catch block of the i-th call: setError(...), setLoading(false).
Caught(p, i, err) ==
    [ p EXCEPT !.error = Some(ErrorMessage(err)), !.loading = FALSE,
               !.fetches = Without(p.fetches, i) ]

\* What the page renders: the spinner, the error panel with its Go Back
\* button, or the content with its Back button.
PageViewOf(kind, text, back) == [ kind |-> kind, text |-> text, back |-> back ]

PageView ==
    IF page.loading THEN PageViewOf("loading", "", FALSE)
    ELSE IF TruthyString(page.error) THEN PageViewOf("error", Get(page.error), TRUE)
    ELSE PageViewOf("content", "", TRUE)

\* The router becomes ready with the id of the URL, or the id of the URL
\* changes: QuestionPage renders and its effect, which depends on
\* router.isReady and id, is scheduled.
RouteChange(id) ==
    /\ ~page.effectPending
    /\ page.id /= Some(id)
    /\ Len(page.fetches) < MaxFetches
    /\ page' = [ page EXCEPT !.isReady = TRUE, !.id = Some(id), !.effectPending = TRUE ]
    /\ UNCHANGED << sessionVars, lookup >>

\* useEffect(() => { if (!router.isReady) return; ... loadQuestion(); },
\* [router.isReady, id]): loadQuestion runs to its first await, which is
\* setLoading(true) and the call of fetch.
PageEffect ==
    /\ page.effectPending
    /\ page' = IF ~page.isReady
               THEN [ page EXCEPT !.effectPending = FALSE ]
               ELSE [ page EXCEPT !.effectPending = FALSE, !.loading = TRUE,
                                  !.fetches = Append(@, [ id |-> Get(page.id),
                                                          awaits |-> "fetch" ]) ]
    /\ UNCHANGED << sessionVars, lookup >>

\* await fetch(...) of the i-th call settles: a rejection and a response
\* with ok false go to the catch block, a response with ok true to
\* response.json().
PageFetchSettled(i, outcome) ==
    /\ i \in 1 .. Len(page.fetches)
    /\ page.fetches[i].awaits = "fetch"
    /\ page' = IF outcome.settled = "ok"
               THEN [ page EXCEPT !.fetches[i].awaits = "json" ]
               ELSE IF outcome.settled = "not ok"
               THEN Caught(page, i, LoadFailed)
               ELSE Caught(page, i, outcome.thrown)
    /\ UNCHANGED << sessionVars, lookup >>

\* await response.json() of the i-th call settles: setLoading(false), or the
\* catch block on a rejection.
PageJsonSettled(i, outcome) ==
    /\ i \in 1 .. Len(page.fetches)
    /\ page.fetches[i].awaits = "json"
    /\ page' = IF outcome.settled = "ok"
               THEN [ page EXCEPT !.loading = FALSE, !.fetches = Without(@, i) ]
               ELSE Caught(page, i, outcome.thrown)
    /\ UNCHANGED << sessionVars, lookup >>

\* How an await settles; `thrown` is read on a rejection only.
Settled(how, thrown) == [ settled |-> how, thrown |-> thrown ]

FetchOutcomes ==
    { Settled("ok", LoadFailed), Settled("not ok", LoadFailed) }
        \cup { Settled("rejected", err) : err \in FetchRejections }

JsonOutcomes ==
    { Settled("ok", LoadFailed) } \cup { Settled("rejected", err) : err \in JsonRejections }

-----------------------------------------------------------------------------
(* Actions *)

Init ==
    /\ roomState = Disconnected
    /\ effectPending = TRUE
    /\ transcripts = << >>
    /\ transcriptsClosure = << >>
    /\ userCode = ""
    /\ questionDescription = ""
    /\ testResults = None
    /\ selectedIndex = 0
    /\ timeLeft = InitialTimeLeft
    /\ raised = FALSE
    /\ emitted = << >>
    /\ lastTestRun = None
    /\ lastEdit = None
    /\ lookup = LookupIdle
    /\ page = PageInitial

\* The transport changes the connection state; Playground renders with the new
\* roomState (onDataReceived is rebuilt over the current transcripts) and its
\* effect, which depends on roomState, is scheduled.  React runs the effect of
\* one render before the next render.
\* The history of the last local edit is kept for as long as the code buffer
\* holds its text, and dropped when another setUserCode overwrites it.
LastEditKept == lastEdit' = IF userCode' = userCode THEN lastEdit ELSE None

ConnectionChange(s) ==
    /\ ~effectPending
    /\ s \in NextConnectionStates(roomState)
    /\ roomState' = s
    /\ effectPending' = TRUE
    /\ transcriptsClosure' = transcripts
    /\ raised' = FALSE
    /\ emitted' = << >>
    /\ UNCHANGED << transcripts, userCode, questionDescription, testResults,
                    selectedIndex, timeLeft, lastTestRun >>
    /\ UNCHANGED << lastEdit, lookup, page >>

\* Mutant of RunEffect: the reset also runs in Connected.
RunEffectResetsInConnected ==
    /\ effectPending
    /\ effectPending' = FALSE
    /\ IF roomState \in { Disconnected, Connected }
       THEN /\ userCode' = Placeholder
            /\ questionDescription' = ""
            /\ transcripts' = << >>
       ELSE UNCHANGED << userCode, questionDescription, transcripts >>
    /\ raised' = FALSE
    /\ emitted' = << >>
    /\ UNCHANGED << roomState, transcriptsClosure, testResults, selectedIndex,
                    timeLeft, lastTestRun >>
    /\ LastEditKept
    /\ UNCHANGED << lookup, page >>

\* useEffect(() => { ... }, [config, localParticipant, roomState, ...])
RunEffect ==
    /\ effectPending
    /\ effectPending' = FALSE
    /\ IF roomState = Disconnected
       THEN /\ userCode' = Placeholder
            /\ questionDescription' = ""
            /\ transcripts' = << >>
       ELSE UNCHANGED << userCode, questionDescription, transcripts >>
    /\ raised' = FALSE
    /\ emitted' = << >>
    /\ UNCHANGED << roomState, transcriptsClosure, testResults, selectedIndex,
                    timeLeft, lastTestRun >>
    /\ LastEditKept
    /\ UNCHANGED << lookup, page >>

\* ColorPicker onSelect: setUserSettings gives a new config object; Playground
\* renders and its effect, which depends on config, runs again.  The click is
\* one event: React runs the effect of its render before the next event.
ConfigChange ==
    /\ ~effectPending
    /\ IF roomState = Disconnected
       THEN /\ userCode' = Placeholder
            /\ questionDescription' = ""
            /\ transcripts' = << >>
            /\ transcriptsClosure' = << >>
       ELSE /\ transcriptsClosure' = transcripts
            /\ UNCHANGED << userCode, questionDescription, transcripts >>
    /\ raised' = FALSE
    /\ emitted' = << >>
    /\ UNCHANGED << roomState, effectPending, testResults, selectedIndex, timeLeft,
                    lastTestRun >>
    /\ LastEditKept
    /\ UNCHANGED << lookup, page >>

\* Playground renders again: useCallback builds onDataReceived over the current
\* transcripts and useDataChannel subscribes it.
Rerender ==
    /\ transcriptsClosure /= transcripts
    /\ transcriptsClosure' = transcripts
    /\ raised' = FALSE
    /\ emitted' = << >>
    /\ UNCHANGED << roomState, effectPending, transcripts, userCode,
                    questionDescription, testResults, selectedIndex, timeLeft,
                    lastTestRun >>
    /\ UNCHANGED << lastEdit, lookup, page >>

\* The room delivers a data message, which it does while connected: both
\* useDataChannel subscribers see it.
\* TestResults stays mounted while testResults is non-null, so its
\* selectedIndex survives a replacement; it mounts with useState(0).
Deliver(msg) ==
    /\ roomState = Connected
    /\ Branch(msg) = "transcription" => Len(transcriptsClosure) < MaxTranscripts
    /\ OnDataReceived(msg)
    /\ HandleTimeUpdate(msg)
    /\ selectedIndex' = IF IsSome(testResults) THEN selectedIndex ELSE 0
    /\ lastTestRun' = IF IsTestRunMessage(msg) THEN msg.payload.data ELSE lastTestRun
    /\ emitted' = << >>
    /\ UNCHANGED << roomState, effectPending, transcriptsClosure >>
    /\ LastEditKept
    /\ UNCHANGED << lookup, page >>

\* Mutant of CanPublish: the guard only excludes Disconnected.
CanPublishUnlessDisconnected == roomState /= Disconnected /\ localParticipant

\* roomState === ConnectionState.Connected && localParticipant
CanPublish == roomState = Connected /\ localParticipant

CodeUpdate(newCode) ==
    [ topic |-> "code", type |-> "code_update", code |-> newCode,
      timestamp |-> ClockStamp ]

\* Mutant of LocalEdit: the edit also closes the results panel.
LocalEditClosesResults(newCode) ==
    /\ userCode' = newCode
    /\ emitted' = IF CanPublish THEN << CodeUpdate(newCode) >> ELSE << >>
    /\ raised' = FALSE
    /\ testResults' = None
    /\ UNCHANGED << roomState, effectPending, transcripts, transcriptsClosure,
                    questionDescription, selectedIndex, timeLeft, lastTestRun >>
    /\ lastEdit' = Some([ code |-> newCode, published |-> CanPublish ])
    /\ UNCHANGED << lookup, page >>

\* handleCodeChange(newCode)
LocalEdit(newCode) ==
    /\ userCode' = newCode
    /\ emitted' = IF CanPublish THEN << CodeUpdate(newCode) >> ELSE << >>
    /\ raised' = FALSE
    /\ UNCHANGED << roomState, effectPending, transcripts, transcriptsClosure,
                    questionDescription, testResults, selectedIndex, timeLeft,
                    lastTestRun >>
    /\ lastEdit' = Some([ code |-> newCode, published |-> CanPublish ])
    /\ UNCHANGED << lookup, page >>

\* <Tab.Group selectedIndex={selectedIndex} onChange={setSelectedIndex}>: a
\* click on the tab "Case i+1" of the run-detail view.
SelectTab(i) ==
    /\ View.kind = "run-detail"
    /\ i \in 0 .. (Len(View.tabs) - 1)
    /\ selectedIndex' = i
    /\ raised' = FALSE
    /\ emitted' = << >>
    /\ UNCHANGED << roomState, effectPending, transcripts, transcriptsClosure,
                    userCode, questionDescription, testResults, timeLeft, lastTestRun >>
    /\ UNCHANGED << lastEdit, lookup, page >>

\* Mutant of CloseResults: the button returns to the first tab and keeps the
\* results.
CloseResultsKeepsResults ==
    /\ IsSome(testResults)
    /\ testResults' = testResults
    /\ selectedIndex' = 0
    /\ raised' = FALSE
    /\ emitted' = << >>
    /\ UNCHANGED << roomState, effectPending, transcripts, transcriptsClosure,
                    userCode, questionDescription, timeLeft, lastTestRun >>
    /\ UNCHANGED << lastEdit, lookup, page >>

\* onClick={() => setTestResults(null)}: the overlay and TestResults unmount.
CloseResults ==
    /\ IsSome(testResults)
    /\ testResults' = None
    /\ selectedIndex' = 0
    /\ raised' = FALSE
    /\ emitted' = << >>
    /\ UNCHANGED << roomState, effectPending, transcripts, transcriptsClosure,
                    userCode, questionDescription, timeLeft, lastTestRun >>
    /\ UNCHANGED << lastEdit, lookup, page >>

\* The types the Run and Submit buttons of the Problem tile send.
ButtonTypes == { "run_code", "submit_code" }

\* The payload of sendDataMessage: { type, timestamp: Date.now() }.
DataMessage(type) ==
    [ topic |-> "code", type |-> type, timestamp |-> ClockStamp ]

\* Mutant of SendDataMessage: the click publishes in every state but
\* Disconnected.
SendDataMessageUnlessDisconnected(type) ==
    /\ emitted' = IF CanPublishUnlessDisconnected
                  THEN << DataMessage(type) >> ELSE << >>
    /\ raised' = FALSE
    /\ UNCHANGED << roomState, effectPending, transcripts, transcriptsClosure,
                    userCode, questionDescription, testResults, selectedIndex,
                    timeLeft, lastTestRun >>
    /\ UNCHANGED << lastEdit, lookup, page >>

\* onClick={() => sendDataMessage(type)} of the Run and Submit buttons.
SendDataMessage(type) ==
    /\ emitted' = IF CanPublish THEN << DataMessage(type) >> ELSE << >>
    /\ raised' = FALSE
    /\ UNCHANGED << roomState, effectPending, transcripts, transcriptsClosure,
                    userCode, questionDescription, testResults, selectedIndex,
                    timeLeft, lastTestRun >>
    /\ UNCHANGED << lastEdit, lookup, page >>

Next ==
    \/ \E s \in ConnectionStates : ConnectionChange(s)
    \/ RunEffect
    \/ ConfigChange
    \/ Rerender
    \/ \E msg \in InboundMessages : Deliver(msg)
    \/ \E newCode \in EditTexts : LocalEdit(newCode)
    \/ \E i \in 0 .. 1 : SelectTab(i)
    \/ CloseResults

Spec == Init /\ [][Next]_vars

\* The execution feedback alone: the session connects and receives
\* test-results messages over every combination of their fields.
NextFeedback ==
    \/ \E s \in ConnectionStates : ConnectionChange(s)
    \/ RunEffect
    \/ \E msg \in FeedbackMessages : Deliver(msg)
    \/ \E i \in 0 .. 1 : SelectTab(i)
    \/ CloseResults

FeedbackSpec == Init /\ [][NextFeedback]_vars

\* The Problem tile alone: the session connects, receives questions and
\* test results, the candidate edits the code and clicks Run and Submit.
TileMessages ==
    { msg \in InboundMessages : Branch(msg) \in { "question_data", "test_results" } }

NextTile ==
    \/ \E s \in ConnectionStates : ConnectionChange(s)
    \/ RunEffect
    \/ \E msg \in TileMessages : Deliver(msg)
    \/ \E newCode \in EditTexts : LocalEdit(newCode)
    \/ \E type \in ButtonTypes : SendDataMessage(type)

TileSpec == Init /\ [][NextTile]_vars

\* The timer alone: the session connects and receives interview-time
\* messages over every time value.
NextTimer ==
    \/ \E s \in ConnectionStates : ConnectionChange(s)
    \/ RunEffect
    \/ \E msg \in TimerMessages : Deliver(msg)

TimerSpec == Init /\ [][NextTimer]_vars

\* The API route alone: calls of the handler, one after the other.
NextLookup ==
    \/ \E method \in Methods, id \in QuestionIds : HandlerCalled(method, id)
    \/ \E outcome \in { None } \cup { Some(status) : status \in BackendStatuses } :
          FetchSettled(outcome)
    \/ \E readable \in BOOLEAN : BodySettled(readable)

LookupSpec == Init /\ [][NextLookup]_vars

\* The question page alone.
NextPage ==
    \/ \E id \in QuestionIds : RouteChange(id)
    \/ PageEffect
    \/ \E i \in 1 .. MaxFetches, outcome \in FetchOutcomes : PageFetchSettled(i, outcome)
    \/ \E i \in 1 .. MaxFetches, outcome \in JsonOutcomes : PageJsonSettled(i, outcome)

PageSpec == Init /\ [][NextPage]_vars

-----------------------------------------------------------------------------
(* Claims *)

\* The initial values of the five session stores.
InitialStores == << << >>, "", Placeholder, None, InitialTimeLeft >>

\* C1: whenever the connection state has become Disconnected and the connection
\* effect has run for it, all five stores hold their initial values: transcript
\* empty, question description empty, code buffer the placeholder, testResults
\* null and the timer at "00:00:00".
C1_DisconnectResetsAllStores ==
    [][ (effectPending /\ ~effectPending' /\ roomState' = Disconnected)
            => stores' = InitialStores ]_vars

\* C2: delivering a message whose payload is not JSON, on any topic, raises
\* nothing to the caller and changes none of the five stores.
C2_MalformedPayloadIsDropped ==
    [][ \A msg \in InboundMessages :
            (msg.payload.kind = "malformed" /\ Deliver(msg))
                => (raised' = FALSE /\ stores' = stores) ]_vars

\* The keys of a test-results payload.
TestRunKeys == { "success", "mode", "cooldown", "error", "results" }

\* C3: whenever a TestRun is displayed it is the most recently received one,
\* key by key: nothing of an earlier TestRun is carried over and no received
\* TestRun waits behind the displayed one.
C3_DisplayedIsMostRecent ==
    IsSome(testResults) =>
        /\ IsSome(lastTestRun)
        /\ \A k \in TestRunKeys : Get(testResults)[k] = Get(lastTestRun)[k]

\* C3 witness: a submit-mode TestRun has replaced a run-mode TestRun in which
\* the second case had been selected.
C3_Witness ==
    /\ IsSome(testResults)
    /\ Get(testResults).mode = Some("submit")
    /\ selectedIndex = 1

\* C4: a displayed payload with cooldown = true shows no test case, whatever
\* its success flag and its results.
C4_CooldownShowsNoCases ==
    (IsSome(testResults) /\ TruthyBool(Get(testResults).cooldown)) => View.tabs = << >>

\* The displayed payload carries at least one test case.
HasCases == IsSome(testResults) /\ ~NoCases(Get(testResults))

C6_SelectedIndexValidAndReset ==
    [][ /\ View'.kind = "run-detail" => selectedIndex' \in 0 .. (Len(View'.tabs) - 1)
        /\ (lastTestRun' /= lastTestRun /\ View'.kind = "run-detail")
               => selectedIndex' = 0 ]_vars

\* The five-step classification of a payload, in the order of the claim.
C7_Classification(p) ==
    IF p.cooldown = Some(TRUE) THEN "cooldown"
    ELSE IF p.success = Some(FALSE) /\ IsSome(p.error) /\ ~IsSome(p.results)
    THEN "error"
    ELSE IF \/ ~IsSome(p.results)
            \/ ~IsSome(Get(p.results).test_results)
            \/ Get(Get(p.results).test_results) = << >>
    THEN "unavailable"
    ELSE IF p.mode = Some("submit") THEN "submit-summary"
    ELSE "run-detail"

\* C7: the view rendered for a displayed payload is the one the five-step
\* classification gives.
C7_ViewIsFiveStepClassification ==
    IsSome(testResults) => View.kind = C7_Classification(Get(testResults))

\* The messages of the scenario.
RunTwoCasesMessage == Message("test-results", TestResultsPayload(Some(RunTwoCases)))

SubmitFailedMessage == Message("test-results", TestResultsPayload(Some(SubmitFailed)))

\* The session is connected, a question is loaded and no TestRun is displayed.
C8_QuestionLoaded ==
    roomState = Connected /\ questionDescription /= "" /\ ~IsSome(testResults)

\* The two-case run of the scenario is displayed with its first case selected.
C8_RunDisplayed ==
    /\ roomState = Connected
    /\ questionDescription /= ""
    /\ testResults = Some(ResultData(RunTwoCases))
    /\ selectedIndex = 0

\* The first half of the scenario: the two-case run arrives after the question.
C8_RunStep ==
    (C8_QuestionLoaded /\ Deliver(RunTwoCasesMessage))
        => /\ View'.kind = "run-detail"
           /\ View'.selected = 0
           /\ Len(View'.tabs) = 2
           /\ View'.badge = "1/2 Passed"

\* C8 as claimed: after connect, a question-data message and the two-case run
\* message the view is Run-detail with case 0 selected and "1/2 Passed"; the
\* message {mode: "submit", success: false} then makes the view the
\* Submit-summary with the failure banner and no case list.
C8_ScenarioEndsInSubmitSummary ==
    [][ /\ C8_RunStep
        /\ (C8_RunDisplayed /\ Deliver(SubmitFailedMessage))
               => /\ View'.kind = "submit-summary"
                  /\ View'.text = "Your submission did not pass all tests."
                  /\ View'.tabs = << >> ]_vars

\* C8 amended: the first half as claimed; the message {mode: "submit",
\* success: false}, which carries neither results nor error, then makes the view
\* the "No test results available." notice, with no banner and no case list.
C8_ScenarioEndsInUnavailableNotice ==
    [][ /\ C8_RunStep
        /\ (C8_RunDisplayed /\ Deliver(SubmitFailedMessage))
               => /\ View'.kind = "unavailable"
                  /\ View'.text = "No test results available."
                  /\ View'.header = ""
                  /\ View'.tabs = << >> ]_vars

\* C8 witness: with a question loaded, the submit message of the scenario is
\* the last TestRun received and is displayed.
C8_Witness ==
    /\ roomState = Connected
    /\ questionDescription = "Two Sum"
    /\ lastTestRun = Some(SubmitFailed)
    /\ testResults = Some(ResultData(SubmitFailed))
    /\ selectedIndex = 0

\* C9: a local edit with text c sets the code buffer to c in every connection
\* state and publishes exactly the one message {type: "code_update", code: c,
\* timestamp} on topic "code" when the connection state is Connected, and
\* nothing otherwise; no step publishes anything outside Connected.
C9_EditPublishesIffConnected ==
    [][ /\ \A c \in EditTexts :
              LocalEdit(c) =>
                  /\ userCode' = c
                  /\ emitted' = IF roomState = Connected
                                THEN << [ topic |-> "code", type |-> "code_update",
                                          code |-> c, timestamp |-> ClockStamp ] >>
                                ELSE << >>
        /\ emitted' /= << >> => (roomState = Connected /\ roomState' = Connected) ]_vars

\* C9 witness: an edit made while Connected has been published.
C9_Witness ==
    /\ roomState = Connected
    /\ userCode = "x = 2"
    /\ Len(emitted) = 1
    /\ emitted[1].type = "code_update"
    /\ emitted[1].code = "x = 2"

\* C10: testResults is null whenever the connection state is not Connected
\* (and the connection effect scheduled for that state has run).
C10_NullUnlessConnected ==
    (roomState /= Connected /\ ~effectPending) => ~IsSome(testResults)

\* The question-data messages that carry a description and a skeleton.
C11_Questions ==
    { msg \in InboundMessages :
        /\ msg.payload.kind = "object"
        /\ Branch(msg) = "question_data"
        /\ IsSome(msg.payload.data)
        /\ IsSome(Get(msg.payload.data).description)
        /\ IsSome(Get(msg.payload.data).skeleton_code) }

\* C11: a question-data message sets the question description to the payload's
\* description and the code buffer to exactly the payload's skeleton_code,
\* whatever the buffer held before (placeholder, earlier skeleton or edits).
C11_QuestionDataOverwrites ==
    [][ \A msg \in C11_Questions :
            Deliver(msg) =>
                /\ questionDescription' = Get(Get(msg.payload.data).description)
                /\ userCode' = Get(Get(msg.payload.data).skeleton_code) ]_vars

\* C11 witness: the question has replaced the buffer; the test run stored
\* before it shows that the session was under way.
C11_Witness ==
    /\ roomState = Connected
    /\ questionDescription = "Two Sum"
    /\ userCode = "def f(): pass"
    /\ IsSome(testResults)

\* C12: a local edit changes the code buffer and nothing else of the session:
\* question description, transcript, test results and timer value (and so the
\* feedback view) are as they were.
C12_EditChangesOnlyCodeBuffer ==
    [][ \A c \in EditTexts :
            LocalEdit(c) =>
                /\ userCode' = c
                /\ questionDescription' = questionDescription
                /\ transcripts' = transcripts
                /\ testResults' = testResults
                /\ timeLeft' = timeLeft
                /\ View' = View ]_vars

\* C12 witness: an edit published while the other four stores hold received
\* values.
C12_Witness ==
    /\ userCode = "x = 1"
    /\ Len(emitted) = 1
    /\ questionDescription = "Two Sum"
    /\ Len(transcripts) = 1
    /\ IsSome(testResults)
    /\ timeLeft = Some(TimeString("00:04:30"))

\* The kinds the router recognises: transcription by its topic alone, the
\* others by the pair of topic and payload.type (an interview-time payload has
\* no type).
C13_Recognised(msg) ==
    \/ msg.topic = "transcription"
    \/ msg.topic = "question-data" /\ msg.payload.type = Some("question_data")
    \/ msg.topic = "test-results" /\ msg.payload.type = Some("test_results")
    \/ msg.topic = "interview-time" /\ msg.payload.type = None

C13_Unrecognised ==
    { msg \in InboundMessages : msg.payload.kind = "object" /\ ~C13_Recognised(msg) }

\* C13: a JSON object whose (topic, payload.type) pair is not a recognised
\* kind is ignored: its delivery changes none of the five stores and raises
\* no error.
C13_UnrecognisedIsIgnored ==
    [][ \A msg \in C13_Unrecognised :
            Deliver(msg) => (stores' = stores /\ raised' = FALSE) ]_vars

\* What does hold: the same for the unrecognised pairs on every topic but
\* interview-time.
C13_IgnoredOffTimerTopic ==
    [][ \A msg \in C13_Unrecognised :
            (msg.topic /= "interview-time" /\ Deliver(msg)) =>
                (stores' = stores /\ raised' = FALSE) ]_vars

\* The stores that a step changes.
C14_Changed ==
    (IF transcripts' /= transcripts THEN { "transcript" } ELSE { })
        \cup (IF questionDescription' /= questionDescription THEN { "question" } ELSE { })
        \cup (IF userCode' /= userCode THEN { "code buffer" } ELSE { })
        \cup (IF testResults' /= testResults THEN { "test results" } ELSE { })
        \cup (IF timeLeft' /= timeLeft THEN { "timer" } ELSE { })

\* The step is the delivery of a message of the given kind.
C14_Delivery(OfKind(_)) ==
    \E msg \in InboundMessages : OfKind(msg) /\ Deliver(msg)

\* C14: a delivered message changes at most one of the five stores.
C14_AtMostOneStorePerMessage ==
    [][ Cardinality(C14_Changed) <= 1 \/ ~(\E msg \in InboundMessages : Deliver(msg)) ]_vars

\* C14 as amended: a question-data message changes the question description
\* and the code buffer and no other store; every other message changes at
\* most one store.
C14_OneStoreOrQuestionAndCode ==
    [][ LET IsQuestion(msg) ==
                msg.topic = "question-data" /\ msg.payload.type = Some("question_data")
            Other(msg) == ~IsQuestion(msg)
        IN  /\ C14_Changed \subseteq { "question", "code buffer" }
                   \/ ~C14_Delivery(IsQuestion)
            /\ Cardinality(C14_Changed) <= 1 \/ ~C14_Delivery(Other) ]_vars

\* C14 witness: a question has been stored (description and buffer) between
\* a transcription and a timer message.
C14_Witness ==
    /\ questionDescription = "Two Sum"
    /\ userCode = "def f(): pass"
    /\ Len(transcripts) = 1
    /\ timeLeft = Some(TimeNumber(45))

\* C15: the transcript is append-only in arrival order: a transcription
\* message adds one entry carrying its text after the entries already held,
\* which stay as they are, also when messages arrive before the view has
\* rendered again.
C15_TranscriptAppendOnly ==
    [][ \A msg \in InboundMessages :
            (msg.topic = "transcription" /\ msg.payload.kind = "object" /\ Deliver(msg)) =>
                /\ Len(transcripts') = Len(transcripts) + 1
                /\ SubSeq(transcripts', 1, Len(transcripts)) = transcripts
                /\ transcripts'[Len(transcripts')].message = msg.payload.text ]_vars

\* C16: closing the panel makes the feedback state null in that step, with no
\* message; a test-results message delivered while the state is null (initial
\* or closed) is stored whole and the overlay shows it.
C16_CloseThenSupersede ==
    [][ /\ CloseResults => (testResults' = None /\ View' = IdleView)
        /\ \A msg \in FeedbackMessages :
               (testResults = None /\ Deliver(msg)) =>
                   /\ IsSome(testResults')
                   /\ \A k \in TestRunKeys :
                          Get(testResults')[k] = Get(msg.payload.data)[k]
                   /\ View'.kind /= "idle" ]_vars

\* C16 witness: the panel has been closed on a received TestRun and the
\* session is still connected.
C16_Witness ==
    /\ roomState = Connected
    /\ testResults = None
    /\ IsSome(lastTestRun)

\* C17: a timeLeft of either shape, the "HH:MM:SS" string or the number of
\* seconds, is rendered by the timer without error.
C17_BothShapesAccepted ==
    \A t \in TimeValues : timeLeft = Some(t) => ~TimerView.threw

\* C18: "HH:MM:SS" with hours "00" is shown as "MM:SS" and with other hours
\* unchanged; a number s of seconds is shown as floor(s / 60), ":" and
\* s mod 60 in two digits.
C18_Formatting ==
    /\ \A h \in 0 .. MaxHours, m \in 0 .. MaxMinutes, s \in 0 .. 59 :
           timeLeft = Some(TimeString(TimeText(h, m, s))) =>
               TimerView.text = IF h = 0 THEN TwoDigits(m) \o ":" \o TwoDigits(s)
                                ELSE TimeText(h, m, s)
    /\ \A n \in 0 .. MaxSeconds :
           timeLeft = Some(TimeNumber(n)) =>
               NumericTimerView.text = ToString(n \div 60) \o ":" \o TwoDigits(n % 60)
    /\ timeLeft = Some(TimeString("00:04:30")) => TimerView.text = "04:30"
    /\ timeLeft = Some(TimeString("01:02:03")) => TimerView.text = "01:02:03"
    /\ timeLeft = Some(TimeNumber(45)) => NumericTimerView.text = "0:45"

\* C18 witness: "00:04:30" has been received and is shown as "04:30".
C18_Witness ==
    /\ roomState = Connected
    /\ timeLeft = Some(TimeString("00:04:30"))
    /\ TimerView.text = "04:30"

\* The style the claim gives to a remaining time of sec seconds.
C19_Style(sec) ==
    IF sec <= 180 THEN "text-red-500 animate-pulse"
    ELSE IF sec <= 300 THEN "text-red-500"
    ELSE ""

\* C19: the style depends on the remaining time only: urgent up to and
\* including 3:00 (0:00 too), warning above 3:00 up to and including 5:00,
\* none above 5:00.
C19_UrgencyStyling ==
    /\ \A h \in 0 .. MaxHours, m \in 0 .. MaxMinutes, s \in 0 .. 59 :
           timeLeft = Some(TimeString(TimeText(h, m, s))) =>
               TimerView.style = C19_Style(h * 3600 + m * 60 + s)
    /\ timeLeft = Some(TimeString("00:00:00")) => TimerView.style = "text-red-500 animate-pulse"
    /\ timeLeft = Some(TimeString("00:03:00")) => TimerView.style = "text-red-500 animate-pulse"
    /\ timeLeft = Some(TimeString("00:03:01")) => TimerView.style = "text-red-500"
    /\ timeLeft = Some(TimeString("00:05:00")) => TimerView.style = "text-red-500"
    /\ timeLeft = Some(TimeString("00:05:01")) => TimerView.style = ""
    /\ timeLeft = Some(TimeString("01:02:00")) => TimerView.style = ""

\* C19 witness: exactly 5:00 has been received and has the warning style.
C19_Witness ==
    /\ roomState = Connected
    /\ timeLeft = Some(TimeString("00:05:00"))
    /\ TimerView.style = "text-red-500"

\* C20: a call that has been answered was answered with 405 and without a
\* fetch when the method is not GET; with 500 when the fetch or the read of
\* the body threw; with 200 and the backend's question when the backend
\* answered with success; with the backend's status and an error body when it
\* answered with a failure; and no exception left the handler.
C20_LookupResponses ==
    /\ ~lookup.escaped
    /\ lookup.phase = "responded" =>
           /\ IsSome(lookup.res)
           /\ LET res == Get(lookup.res)
              IN  IF lookup.method /= "GET"
                  THEN res.status = 405 /\ IsSome(res.error) /\ ~lookup.contacted
                  ELSE IF lookup.rejected /= "none"
                  THEN res.status = 500 /\ IsSome(res.error)
                  ELSE IF Get(lookup.backend) \in { 200, 201 }
                  THEN res.status = 200 /\ res.question = Some(BackendQuestion(lookup.id))
                  ELSE /\ res.status = Get(lookup.backend)
                       /\ IsSome(res.error)
                       /\ ~IsSome(res.question)

\* C20 witness: the backend answered 404 and the handler passed it on.
C20_Witness ==
    /\ lookup.phase = "responded"
    /\ lookup.method = "GET"
    /\ lookup.backend = Some(404)
    /\ lookup.rejected = "none"
    /\ Get(lookup.res).status = 404

\* The step is the failure of a call of loadQuestion: its fetch rejected or
\* answered with ok false, or its response.json() rejected.
C21_FetchFails ==
    \E i \in 1 .. MaxFetches :
        \/ \E outcome \in FetchOutcomes :
              outcome.settled /= "ok" /\ PageFetchSettled(i, outcome)
        \/ \E outcome \in JsonOutcomes :
              outcome.settled /= "ok" /\ PageJsonSettled(i, outcome)

\* C21: every failure of a question fetch ends in the error view (loading
\* false, an error message, the back button), and once no call is under way
\* the page is not left loading.
C21_FailureEndsInErrorView ==
    [][ /\ C21_FetchFails =>
              /\ page'.loading = FALSE
              /\ IsSome(page'.error)
              /\ PageView'.kind = "error"
              /\ PageView'.back
        /\ (page'.isReady /\ ~page'.effectPending /\ page'.fetches = << >>) =>
              ~page'.loading ]_vars

\* C21 witness: the backend answered with ok false and the error panel shows
\* the message.
C21_Witness ==
    /\ page.fetches = << >>
    /\ PageView = PageViewOf("error", "Failed to load question data", TRUE)

\* C22: whenever the session is Connected (its connection effect has run) and
\* the code buffer holds the text of the last local edit, that edit has been
\* published, so the last code_update sent carries the buffer; this for edits
\* made in every connection state.
C22_LastEditIsMirrored ==
    ( /\ roomState = Connected
      /\ ~effectPending
      /\ IsSome(lastEdit)
      /\ userCode = Get(lastEdit).code ) => Get(lastEdit).published

\* C23: the reset on entering Disconnected is atomic: the step that resets
\* some store to its initial value leaves no store with the content it held
\* before the disconnect.
C23_ResetIsAtomic ==
    [][ (roomState = Disconnected /\ RunEffect) =>
            LET reset == { i \in 1 .. 5 : stores[i] /= InitialStores[i]
                                             /\ stores'[i] = InitialStores[i] }
                kept  == { i \in 1 .. 5 : stores'[i] /= InitialStores[i] }
            IN  reset = { } \/ kept = { } ]_vars

\* C24: a loaded question (non-empty description) becomes empty only in the
\* reset of a transition to Disconnected, and changes otherwise only in the
\* delivery of a question-data message.
C24_QuestionClearedOnlyOnDisconnect ==
    [][ questionDescription /= "" =>
            /\ questionDescription' = "" => (roomState = Disconnected /\ RunEffect)
            /\ questionDescription' \notin { "", questionDescription } =>
                   \E msg \in InboundMessages :
                       /\ msg.topic = "question-data"
                       /\ msg.payload.type = Some("question_data")
                       /\ Deliver(msg) ]_vars

\* C25: entering Connected resets nothing: neither the transition to
\* Connected (from Connecting or Reconnecting) nor the connection effect that
\* runs in Connected changes any of the five stores.
C25_EnteringConnectedResetsNothing ==
    [][ (ConnectionChange(Connected) \/ (roomState = Connected /\ RunEffect)) =>
            stores' = stores ]_vars

\* C25 witness: the session has just become Connected and holds a question,
\* a transcript entry, test results, a timer value and in the buffer an edit
\* typed outside Connected.
C25_Witness ==
    /\ roomState = Connected
    /\ effectPending
    /\ questionDescription = "Two Sum"
    /\ Len(transcripts) = 1
    /\ IsSome(testResults)
    /\ timeLeft = Some(TimeNumber(45))
    /\ userCode = "x = 1"
    /\ lastEdit = Some([ code |-> "x = 1", published |-> FALSE ])

\* The remaining seconds a timeLeft value stands for.
C26_Remaining(t) ==
    IF t.kind = "number" THEN t.num
    ELSE LET parts == Split(t.str)
         IN  NumberOf(parts[1]) * 3600 + NumberOf(parts[2]) * 60 + NumberOf(parts[3])

\* C26: within a session the timer value never increases from one received
\* snapshot to the next (the value before the first snapshot, "00:00:00",
\* set aside), and it changes only in the delivery of an interview-time
\* message.
C26_TimerNonIncreasing ==
    [][ /\ ( /\ roomState = Connected /\ roomState' = Connected
             /\ IsSome(timeLeft) /\ IsSome(timeLeft')
             /\ timeLeft /= InitialTimeLeft ) =>
                C26_Remaining(Get(timeLeft')) <= C26_Remaining(Get(timeLeft))
        /\ timeLeft' /= timeLeft =>
               Deliver(Message("interview-time",
                               [ EmptyObject EXCEPT !.timeLeft = timeLeft' ])) ]_vars

\* What does hold of C26: no local ticking.
C26_ChangesOnlyOnReceipt ==
    [][ timeLeft' /= timeLeft =>
            Deliver(Message("interview-time",
                            [ EmptyObject EXCEPT !.timeLeft = timeLeft' ])) ]_vars

\* C27: while the connection state stays Disconnected (its reset has run),
\* only a local edit changes the code buffer.
C27_OnlyEditsChangeBufferWhileDisconnected ==
    [][ ( /\ roomState = Disconnected /\ roomState' = Disconnected
          /\ ~effectPending
          /\ userCode' /= userCode ) => \E c \in EditTexts : LocalEdit(c) ]_vars

\* The body reports failing tests: the case tabs or the submit summary of
\* results with a failed case.
C28_BodyReportsFailingTests ==
    /\ View.kind \in { "run-detail", "submit-summary" }
    /\ Get(Get(testResults).results).summary.failed > 0

\* C28: header and body of the overlay agree: the Cooldown badge is shown
\* exactly when the body is the cooldown panel, and the Success badge is
\* never shown above an error panel, a cooldown panel or failing tests.
C28_BadgeAgreesWithBody ==
    IsSome(testResults) =>
        LET badges == HeaderBadges(Get(testResults))
        IN  /\ "Cooldown" \in badges <=> View.kind = "cooldown"
            /\ "Success" \in badges =>
                   /\ View.kind \notin { "error", "cooldown" }
                   /\ ~C28_BodyReportsFailingTests

\* The first half of C28 alone.
C28_CooldownBadgeIffCooldownPanel ==
    IsSome(testResults) =>
        ("Cooldown" \in HeaderBadges(Get(testResults)) <=> View.kind = "cooldown")

\* C29: a click on Run or Submit publishes exactly the one message
\* {type, timestamp} with type "run_code" or "submit_code" on topic "code"
\* when the connection state is Connected and a local participant exists, and
\* nothing otherwise; it changes neither the code buffer, nor the question,
\* nor the test results.
C29_ClickPublishesIffConnected ==
    [][ \A type \in ButtonTypes :
            SendDataMessage(type) =>
                /\ emitted' = IF roomState = Connected /\ localParticipant
                              THEN << [ topic |-> "code", type |-> type,
                                        timestamp |-> ClockStamp ] >>
                              ELSE << >>
                /\ userCode' = userCode
                /\ questionDescription' = questionDescription
                /\ testResults' = testResults ]_vars

\* C29 witness: Run has been clicked while Connected, with a question, an
\* edited buffer and test results on display, and its message is published.
C29_Witness ==
    /\ roomState = Connected
    /\ userCode = "x = 1"
    /\ questionDescription /= ""
    /\ IsSome(testResults)
    /\ Len(emitted) = 1
    /\ emitted[1].type = "run_code"

\* The step is the success of the most recent call of loadQuestion: the call
\* for the current id, the only one under way, has its response.json()
\* resolved.
C30_LatestFetchSucceeds ==
    /\ ~page.effectPending
    /\ Len(page.fetches) = 1
    /\ page.fetches[1].id = Get(page.id)
    /\ PageJsonSettled(1, Settled("ok", LoadFailed))

\* C30: the error view reflects the most recent fetch only: when the most
\* recent fetch succeeds the page shows the content, whatever the fetches
\* before it did.
C30_ViewReflectsLatestFetch ==
    [][ C30_LatestFetchSucceeds => PageView'.kind = "content" ]_vars

====
